---- MODULE Spec2Model ----
(***************************************************************************)
(* The chain! macro of cmpchain (src/src/lib.rs), as a state machine.      *)
(*                                                                         *)
(* Compile time: the compiler holds one pending invocation chain!(inv);    *)
(* every step rewrites it by the first macro_rules arm whose matcher fits, *)
(* in source order.  An arm either produces another invocation, a block of *)
(* the final expression (kept in `out`, outermost block first) or a        *)
(* compile_error! (kept in `diag`).                                        *)
(*                                                                         *)
(* Run time: the blocks of `out` are evaluated as Rust evaluates them:     *)
(* let statements in order, operands of a comparison left to right, the    *)
(* right side of && only when the left side is true.                       *)
(***************************************************************************)
EXTENDS Integers, Sequences, FiniteSets, TLC

VARIABLES
    input,   \* the texts of the tokens written inside chain!( ... )
    inv,     \* token trees of the pending macro invocation
    out,     \* blocks emitted so far, outermost first
    diag,    \* the compile_error! raised, or NoDiag
    pc,      \* "expand", "error", "expanded", "run", "done"
    tv,      \* run time: value each term yields when evaluated
    fr,      \* run time: index of the block being evaluated
    stage,   \* run time: "a", "b", "cmp" inside the block
    env,     \* run time: the let bindings / operand values of each block
    stateful,\* run time: whether evaluating a term changes what it yields next
    log,     \* run time: indices of the terms evaluated, in order
    vals,    \* run time: the values those evaluations yielded, in order
    cmps,    \* run time: the comparisons performed, in order
    result   \* run time: value of the whole expression, or "none"

vars == <<input, inv, out, diag, pc, tv, stateful, fr, stage, env, log, vals,
          cmps, result>>

(***************************************************************************)
(* Bounds of the model.                                                    *)
(***************************************************************************)
\* longest input of the translation specification, in tokens
MaxLen == 5
\* most comparison operators of a chain of the evaluation specification
MaxOps == 2
\* terms evaluate to 0 .. MaxVal
MaxVal == 1

(***************************************************************************)
(* Tokens.  A token tree is a leaf (d = "") carrying its text and the      *)
(* position of the input it was written at (0: written in the macro        *)
(* definition), or a delimited group (d = "(" or "[") of token trees.      *)
(***************************************************************************)
CmpOps == {"<", "<=", ">", ">=", "==", "!="}

\* non-comparison tokens an input is made of: an operand and an infix operator
TermToks == {"x", "+"}

Tok(t, p) == [d |-> "", t |-> t, pos |-> p, s |-> <<>>]

Lit(t) == Tok(t, 0)

Group(d, s) == [d |-> d, t |-> "", pos |-> 0, s |-> s]

IsLit(x, t) == x.d = "" /\ x.t = t

IsCmp(x) == x.d = "" /\ x.t \in CmpOps

Tail2(s, k) == SubSeq(s, k, Len(s))

NoDiag == [msg |-> "", op |-> ""]

(***************************************************************************)
(* Matchers of the macro_rules arms.  Every fragment is a tt, so a matcher *)
(* only looks at the leading token trees and at the length.                *)
(***************************************************************************)
\* (@wrap [$($prev:tt)*] [ ... ] ...
IsWrap(i) ==
    /\ Len(i) >= 4
    /\ IsLit(i[1], "@") /\ IsLit(i[2], "wrap")
    /\ i[3].d = "[" /\ i[4].d = "["

\* (@op ...
IsOp(i) == Len(i) >= 2 /\ IsLit(i[1], "@") /\ IsLit(i[2], "op")

\* (@wrap [$($prev:tt)*] [$($cur:tt)+] OP $next:tt $($rest:tt)*)
MatchWrapOp(i) ==
    IsWrap(i) /\ Len(i[4].s) >= 1 /\ Len(i) >= 6 /\ IsCmp(i[5])

\* (@arg_err $op:tt)
MatchArgErr(i) ==
    Len(i) = 3 /\ IsLit(i[1], "@") /\ IsLit(i[2], "arg_err")

\* (@wrap [$($a:tt)*] [$($b:tt)*] OP)
MatchWrapTrailing(i) == IsWrap(i) /\ Len(i) = 5 /\ IsCmp(i[5])

\* (@wrap [$($prev:tt)*] [$($cur:tt)+])
MatchWrapEnd(i) == IsWrap(i) /\ Len(i[4].s) >= 1 /\ Len(i) = 4

\* (@wrap [$($prev:tt)*] [$($cur:tt)+] $next:tt $($rest:tt)*)
MatchWrapAppend(i) == IsWrap(i) /\ Len(i[4].s) >= 1 /\ Len(i) >= 5

\* (@op $a:tt $op:tt $b:tt)
MatchOpBase(i) == IsOp(i) /\ Len(i) = 5

\* (@op $a:tt $op:tt $b:tt $($rest:tt)+)
MatchOpRec(i) == IsOp(i) /\ Len(i) >= 6

\* (@op $($rest:tt)*)
MatchOpErr(i) == IsOp(i)

\* (OP $($rest:tt)*)
MatchLeadingOp(i) == Len(i) >= 1 /\ IsCmp(i[1])

\* ($first:tt $($rest:tt)*)
MatchEntry(i) == Len(i) >= 1

\* Mutant: the entrypoint arm is written before the leading-operator arms
RuleOfEntryFirst(i) ==
    IF MatchWrapOp(i) THEN "wrap_op"
    ELSE IF MatchArgErr(i) THEN "arg_err"
    ELSE IF MatchWrapTrailing(i) THEN "wrap_trailing"
    ELSE IF MatchWrapEnd(i) THEN "wrap_end"
    ELSE IF MatchWrapAppend(i) THEN "wrap_append"
    ELSE IF MatchOpBase(i) THEN "op_base"
    ELSE IF MatchOpRec(i) THEN "op_rec"
    ELSE IF MatchOpErr(i) THEN "op_err"
    ELSE IF MatchEntry(i) THEN "entry"
    ELSE IF MatchLeadingOp(i) THEN "leading_op"
    ELSE "none"

\* The arm macro_rules takes: the first one, in source order, that matches.
RuleOf(i) ==
    IF MatchWrapOp(i) THEN "wrap_op"
    ELSE IF MatchArgErr(i) THEN "arg_err"
    ELSE IF MatchWrapTrailing(i) THEN "wrap_trailing"
    ELSE IF MatchWrapEnd(i) THEN "wrap_end"
    ELSE IF MatchWrapAppend(i) THEN "wrap_append"
    ELSE IF MatchOpBase(i) THEN "op_base"
    ELSE IF MatchOpRec(i) THEN "op_rec"
    ELSE IF MatchOpErr(i) THEN "op_err"
    ELSE IF MatchLeadingOp(i) THEN "leading_op"
    ELSE IF MatchEntry(i) THEN "entry"
    ELSE "none"

(***************************************************************************)
(* Transcribers: the invocation or the block an arm expands to.            *)
(***************************************************************************)
\* Mutant: every operator arm writes <, as the first arm does
WrapOpNextWritesLt(i) ==
    <<Lit("@"), Lit("wrap"),
      Group("[", i[3].s \o <<Group("(", i[4].s), Lit("<")>>),
      Group("[", <<i[6]>>)>> \o Tail2(i, 7)

\* chain!(@wrap [$($prev)* ($($cur)*) OP] [$next] $($rest)*)
WrapOpNext(i) ==
    <<Lit("@"), Lit("wrap"),
      Group("[", i[3].s \o <<Group("(", i[4].s), Lit(i[5].t)>>),
      Group("[", <<i[6]>>)>> \o Tail2(i, 7)

\* chain!(@arg_err OP), from a trailing operator
WrapTrailingNext(i) == <<Lit("@"), Lit("arg_err"), Lit(i[5].t)>>

\* Mutant: the last term is handed over bare, chain!(@op $($prev)* $($cur)*)
WrapEndNextBare(i) == <<Lit("@"), Lit("op")>> \o i[3].s \o i[4].s

\* chain!(@op $($prev)* ($($cur)*))
WrapEndNext(i) ==
    <<Lit("@"), Lit("op")>> \o i[3].s \o <<Group("(", i[4].s)>>

\* Mutant: the appended token is left in the input,
\* chain!(@wrap [$($prev)*] [$($cur)* $next] $next $($rest)*)
WrapAppendNextKeepsNext(i) ==
    <<Lit("@"), Lit("wrap"), i[3], Group("[", i[4].s \o <<i[5]>>)>>
        \o Tail2(i, 5)

\* Mutant: the accumulator is forgotten,
\* chain!(@wrap [$($prev)*] [$next] $($rest)*)
WrapAppendNextDrops(i) ==
    <<Lit("@"), Lit("wrap"), i[3], Group("[", <<i[5]>>)>> \o Tail2(i, 6)

\* Mutant: a non-comparison token closes the term,
\* chain!(@wrap [$($prev)* ($($cur)*)] [$next] $($rest)*)
WrapAppendNextCloses(i) ==
    <<Lit("@"), Lit("wrap"), Group("[", i[3].s \o <<Group("(", i[4].s)>>),
      Group("[", <<i[5]>>)>> \o Tail2(i, 6)

\* chain!(@wrap [$($prev)*] [$($cur)* $next] $($rest)*)
WrapAppendNext(i) ==
    <<Lit("@"), Lit("wrap"), i[3], Group("[", i[4].s \o <<i[5]>>)>>
        \o Tail2(i, 6)

\* Mutant: the operands are written the other way round, {{ $b $op $a }}
OpBaseBlockSwapped(i) ==
    [rule |-> "base", a |-> i[5], op |-> i[4], b |-> i[3]]

\* {{ $a $op $b }}
OpBaseBlock(i) == [rule |-> "base", a |-> i[3], op |-> i[4], b |-> i[5]]

\* {{ let a = $a; let b = $b; a $op b && ... }}
OpRecBlock(i) == [rule |-> "rec", a |-> i[3], op |-> i[4], b |-> i[5]]

\* Mutant: the recursive call is handed the binding a, chain!(@op a $($rest)*)
OpRecNextPassesA(i) == <<Lit("@"), Lit("op"), Lit("a")>> \o Tail2(i, 6)

\* Mutant: the recursive call is handed the term again, chain!(@op $b $($rest)*)
OpRecNextPassesTerm(i) == <<Lit("@"), Lit("op"), i[5]>> \o Tail2(i, 6)

\* ... chain!(@op b $($rest)*): b is the binding of the block just emitted
OpRecNext(i) == <<Lit("@"), Lit("op"), Lit("b")>> \o Tail2(i, 6)

\* chain!(@arg_err OP), from a leading operator
LeadingOpNext(i) == <<Lit("@"), Lit("arg_err"), Lit(i[1].t)>>

\* chain!(@wrap [] [$first] $($rest)*)
EntryNext(i) ==
    <<Lit("@"), Lit("wrap"), Group("[", <<>>), Group("[", <<i[1]>>)>>
        \o Tail2(i, 2)

\* compile_error!(concat!("Expected two arguments for \"", stringify!($op), "\""))
ArgErrDiag(i) == [msg |-> "Expected two arguments for", op |-> i[3].t]

\* compile_error!("Expected comparison operator (<, <=, >, >=, ==, !=)")
OpErrDiag == [msg |-> "Expected comparison operator (<, <=, >, >=, ==, !=)",
              op |-> ""]

(***************************************************************************)
(* Compile time: one action per macro_rules arm (the six arms that differ  *)
(* only in the operator are one action).                                   *)
(***************************************************************************)
RunVars == <<tv, stateful, fr, stage, env, log, vals, cmps, result>>

Tokens(txt) == [k \in 1..Len(txt) |-> Tok(txt[k], k)]

WrapOp ==
    /\ pc = "expand" /\ RuleOf(inv) = "wrap_op"
    /\ inv' = WrapOpNext(inv)
    /\ UNCHANGED <<input, out, diag, pc, RunVars>>

ArgErr ==
    /\ pc = "expand" /\ RuleOf(inv) = "arg_err"
    /\ diag' = ArgErrDiag(inv)
    /\ inv' = <<>>
    /\ pc' = "error"
    /\ UNCHANGED <<input, out, RunVars>>

WrapTrailing ==
    /\ pc = "expand" /\ RuleOf(inv) = "wrap_trailing"
    /\ inv' = WrapTrailingNext(inv)
    /\ UNCHANGED <<input, out, diag, pc, RunVars>>

WrapEnd ==
    /\ pc = "expand" /\ RuleOf(inv) = "wrap_end"
    /\ inv' = WrapEndNext(inv)
    /\ UNCHANGED <<input, out, diag, pc, RunVars>>

WrapAppend ==
    /\ pc = "expand" /\ RuleOf(inv) = "wrap_append"
    /\ inv' = WrapAppendNext(inv)
    /\ UNCHANGED <<input, out, diag, pc, RunVars>>

OpBase ==
    /\ pc = "expand" /\ RuleOf(inv) = "op_base"
    /\ out' = Append(out, OpBaseBlock(inv))
    /\ inv' = <<>>
    /\ pc' = "expanded"
    /\ UNCHANGED <<input, diag, RunVars>>

OpRec ==
    /\ pc = "expand" /\ RuleOf(inv) = "op_rec"
    /\ out' = Append(out, OpRecBlock(inv))
    /\ inv' = OpRecNext(inv)
    /\ UNCHANGED <<input, diag, pc, RunVars>>

\* Mutant: the catch-all arm passes a lone term through, (@op $a:tt) => {{ $a }}
OpErrPassesThrough ==
    /\ pc = "expand" /\ RuleOf(inv) = "op_err"
    /\ out' = Append(out, [rule |-> "base", a |-> inv[Len(inv)],
                           op |-> Lit(""), b |-> Lit("")])
    /\ inv' = <<>>
    /\ pc' = "expanded"
    /\ UNCHANGED <<input, diag, RunVars>>

OpErr ==
    /\ pc = "expand" /\ RuleOf(inv) = "op_err"
    /\ diag' = OpErrDiag
    /\ inv' = <<>>
    /\ pc' = "error"
    /\ UNCHANGED <<input, out, RunVars>>

LeadingOp ==
    /\ pc = "expand" /\ RuleOf(inv) = "leading_op"
    /\ inv' = LeadingOpNext(inv)
    /\ UNCHANGED <<input, out, diag, pc, RunVars>>

Entry ==
    /\ pc = "expand" /\ RuleOf(inv) = "entry"
    /\ inv' = EntryNext(inv)
    /\ UNCHANGED <<input, out, diag, pc, RunVars>>

(***************************************************************************)
(* The translation specification: every input of 1 .. MaxLen tokens.       *)
(***************************************************************************)
Alphabet == CmpOps \cup TermToks

Inputs == UNION {[1..n -> Alphabet] : n \in 1..MaxLen}

InitRun ==
    /\ tv = <<>> /\ stateful = FALSE /\ fr = 0 /\ stage = "" /\ env = <<>>
    /\ log = <<>> /\ vals = <<>> /\ cmps = <<>> /\ result = TRUE

Init ==
    /\ input \in Inputs
    /\ inv = Tokens(input)
    /\ out = <<>>
    /\ diag = NoDiag
    /\ pc = "expand"
    /\ InitRun

Next ==
    \/ Entry \/ LeadingOp
    \/ WrapOp \/ WrapAppend \/ WrapTrailing \/ WrapEnd
    \/ OpBase \/ OpRec \/ OpErr
    \/ ArgErr

Spec == Init /\ [][Next]_vars

(***************************************************************************)
(* Run time: evaluation of the expression the macro expanded to.           *)
(*                                                                         *)
(* A parenthesised operand is a term of the caller: evaluating it yields   *)
(* its value and records the evaluation in `log`.  The identifiers a and b *)
(* written by the macro are hygienic: in the block of a recursive call     *)
(* they name the let bindings of the enclosing block.                      *)
(***************************************************************************)
Vals == 0..MaxVal

\* 0-based index of the term a token position belongs to
TermAt(p) == Cardinality({k \in 1..(p - 1) : input[k] \in CmpOps})

TermIndex(x) == TermAt(x.s[1].pos)

NumOps(txt) == Cardinality({k \in 1..Len(txt) : txt[k] \in CmpOps})

IsTerm(x) == x.d = "("

\* what evaluating term i yields now: tv[i] the first time; a stateful term
\* (a counter, an iterator) yields the next value every further time
TermValue(i) ==
    IF stateful
    THEN (tv[i] + Cardinality({k \in DOMAIN log : log[k] = i})) % (MaxVal + 1)
    ELSE tv[i]

\* value of operand x of block j
OperandValue(x, j) ==
    IF IsTerm(x) THEN TermValue(TermIndex(x))
    ELSE IF IsLit(x, "a") THEN env[j - 1].a
    ELSE env[j - 1].b

OperandLog(x) == IF IsTerm(x) THEN Append(log, TermIndex(x)) ELSE log

OperandVals(x) ==
    IF IsTerm(x) THEN Append(vals, TermValue(TermIndex(x))) ELSE vals

\* the host's comparison operators
Holds(l, op, r) ==
    CASE op = "<"  -> l < r
      [] op = "<=" -> l <= r
      [] op = ">"  -> l > r
      [] op = ">=" -> l >= r
      [] op = "==" -> l = r
      [] op = "!=" -> l # r

\* Mutant: c & rest, the eager conjunction
AndEvaluatesRhsEager(c) == TRUE

\* c && rest: rest is evaluated only when c is true
AndEvaluatesRhs(c) == c

Unset == [a |-> -1, b |-> -1]

\* the compiled program starts; the terms' values are the environment's
Run ==
    /\ pc = "expanded"
    /\ pc' = "run"
    /\ tv' \in [0..NumOps(input) -> Vals]
    /\ stateful' \in BOOLEAN
    /\ fr' = 1 /\ stage' = "a"
    /\ env' = [j \in 1..Len(out) |-> Unset]
    /\ UNCHANGED <<input, inv, out, diag, log, vals, cmps, result>>

\* let a = $a;   (the left operand of the last block)
EvalA ==
    /\ pc = "run" /\ stage = "a"
    /\ env' = [env EXCEPT ![fr].a = OperandValue(out[fr].a, fr)]
    /\ log' = OperandLog(out[fr].a)
    /\ vals' = OperandVals(out[fr].a)
    /\ stage' = "b"
    /\ UNCHANGED <<input, inv, out, diag, pc, tv, stateful, fr, cmps, result>>

\* let b = $b;   (the right operand of the last block)
EvalB ==
    /\ pc = "run" /\ stage = "b"
    /\ env' = [env EXCEPT ![fr].b = OperandValue(out[fr].b, fr)]
    /\ log' = OperandLog(out[fr].b)
    /\ vals' = OperandVals(out[fr].b)
    /\ stage' = "cmp"
    /\ UNCHANGED <<input, inv, out, diag, pc, tv, stateful, fr, cmps, result>>

\* a $op b && ...   ($a $op $b in the last block)
Compare ==
    /\ pc = "run" /\ stage = "cmp"
    /\ LET c == Holds(env[fr].a, out[fr].op.t, env[fr].b) IN
        /\ cmps' = Append(cmps, [l |-> env[fr].a, op |-> out[fr].op.t,
                                 r |-> env[fr].b, v |-> c])
        /\ result' = (result /\ c)
        /\ IF out[fr].rule = "rec" /\ AndEvaluatesRhs(c)
           THEN fr' = fr + 1 /\ stage' = "a" /\ pc' = pc
           ELSE fr' = fr /\ stage' = "" /\ pc' = "done"
    /\ UNCHANGED <<input, inv, out, diag, tv, stateful, env, log, vals>>

(***************************************************************************)
(* The evaluation specification: every well-formed chain of 1 .. MaxOps    *)
(* operators, translated by the macro and then run on every valuation of   *)
(* its terms.  At most one term is written with an infix operator (x + x). *)
(***************************************************************************)
TermText(wide) == IF wide THEN <<"x", "+", "x">> ELSE <<"x">>

RECURSIVE ChainText(_, _, _)
\* tk op[k+1] ... op[n] tn, the term with index w written wide
ChainText(ops, w, k) ==
    IF k = Len(ops) THEN TermText(w = k)
    ELSE TermText(w = k) \o <<ops[k + 1]>> \o ChainText(ops, w, k + 1)

Chains ==
    {ChainText(ops, w, 0) :
        ops \in UNION {[1..n -> CmpOps] : n \in 1..MaxOps},
        w \in 0..(MaxOps + 1)}

InitEval ==
    /\ input \in Chains
    /\ inv = Tokens(input)
    /\ out = <<>>
    /\ diag = NoDiag
    /\ pc = "expand"
    /\ InitRun

NextEval ==
    \/ Entry \/ WrapOp \/ WrapAppend \/ WrapEnd
    \/ OpBase \/ OpRec
    \/ Run \/ EvalA \/ EvalB \/ Compare

SpecEval == InitEval /\ [][NextEval]_vars

(***************************************************************************)
(* Vocabulary of the properties, read off the input alone.                 *)
(***************************************************************************)
IsCmpText(t) == t \in CmpOps

\* the comparison operators of the input, in order
InputOps == SelectSeq(input, IsCmpText)

N == NumOps(input)

\* comparison i (0-based) of the chain, on the terms' own values
PairHolds(i) == Holds(tv[i], InputOps[i + 1], tv[i + 1])

FalsePairs == {i \in 0..(N - 1) : ~PairHolds(i)}

Min(S) == CHOOSE m \in S : \A k \in S : m <= k

\* <<0, 1, ..., k>>
UpTo(k) == [j \in 1..(k + 1) |-> j - 1]

(***************************************************************************)
(* C1: when the expression of a well-formed chain has been evaluated, its  *)
(* value is the conjunction of the comparisons t_i op_i t_(i+1), i < n,    *)
(* each taken on the values of the terms themselves.                       *)
(***************************************************************************)
C1_EqualsConjunction ==
    (pc = "done" /\ ~stateful) =>
        (result <=> (\A i \in 0..(N - 1) : PairHolds(i)))

\* a chain of two operators evaluated to true, through the recursive block
C1_Witness ==
    /\ pc = "done" /\ ~stateful /\ N = 2 /\ result
    /\ Len(out) = 2 /\ Len(cmps) = 2

(***************************************************************************)
(* C2: at every moment of an evaluation no term has been evaluated twice.  *)
(***************************************************************************)
C2_AtMostOnce ==
    \A i, j \in DOMAIN log : i # j => log[i] # log[j]

\* the interior term t1 was evaluated and then served two comparisons
C2_Witness ==
    /\ pc = "done" /\ N = 2 /\ Len(cmps) = 2
    /\ Cardinality({k \in DOMAIN log : log[k] = 1}) = 1

(***************************************************************************)
(* C3: terms are evaluated in the order t0, t1, ...; when the evaluation   *)
(* ends, exactly t0 .. tk have been evaluated, k = i + 1 for the first     *)
(* false comparison i and k = n when there is none; a false comparison     *)
(* makes the result false.                                                 *)
(***************************************************************************)
C3_OrderAndShortCircuit ==
    /\ pc \in {"run", "done"} => log = UpTo(Len(log) - 1)
    /\ pc = "done" =>
        /\ log = UpTo(IF FalsePairs = {} THEN N ELSE Min(FalsePairs) + 1)
        /\ FalsePairs # {} => ~result

\* comparison 0 of a two-operator chain is false: t2 is never evaluated
C3_Witness ==
    /\ pc = "done" /\ N = 2 /\ ~PairHolds(0)
    /\ log = <<0, 1>> /\ ~result

(***************************************************************************)
(* Vocabulary of the translation properties.                               *)
(***************************************************************************)
Last == input[Len(input)]

AdjacentOps ==
    \E k \in 1..(Len(input) - 1) : IsCmpText(input[k]) /\ IsCmpText(input[k + 1])

\* terms and operators alternate: t0 op0 t1 ... tn, n >= 1, no term empty
WellFormed ==
    /\ N >= 1
    /\ ~IsCmpText(input[1]) /\ ~IsCmpText(Last)
    /\ ~AdjacentOps

\* position of operator i (1-based) of the input; 0 and Len + 1 at the ends
OpPos(i) ==
    IF i = 0 THEN 0
    ELSE IF i > N THEN Len(input) + 1
    ELSE CHOOSE p \in 1..Len(input) :
            /\ IsCmpText(input[p])
            /\ Cardinality({k \in 1..p : IsCmpText(input[k])}) = i

\* term i (0-based) of the input, as the caller wrote it
TermTokens(i) ==
    [k \in 1..(OpPos(i + 1) - OpPos(i) - 1) |->
        Tok(input[OpPos(i) + k], OpPos(i) + k)]

\* the terms the Grouper has closed, wherever they are by now
ClosedTerms ==
    (IF IsWrap(inv) THEN {inv[3].s[k] : k \in DOMAIN inv[3].s} ELSE {})
    \cup (IF IsOp(inv) THEN {inv[k] : k \in 3..Len(inv)} ELSE {})
    \cup {out[j].a : j \in DOMAIN out}
    \cup {out[j].b : j \in DOMAIN out}

Terms == {g \in ClosedTerms : IsTerm(g)}

\* the term being accumulated, <<>> outside the Grouper
Accumulator == IF IsWrap(inv) THEN inv[4].s ELSE <<>>

\* the Grouper has just handed its chain to @op
HandedOver == pc = "expand" /\ IsOp(inv) /\ out = <<>>

ArgErrMsg == "Expected two arguments for"

\* s is a run of consecutive tokens of the input, unchanged and in order
Contiguous(s) ==
    s # <<>> =>
        /\ s[1].pos >= 1 /\ s[1].pos + Len(s) - 1 <= Len(input)
        /\ \A k \in 1..Len(s) :
            s[k] = Tok(input[s[1].pos + k - 1], s[1].pos + k - 1)

\* the token after s in the input, if there is one, is a comparison operator
EndsAtOperator(s) ==
    LET e == s[Len(s)].pos IN e = Len(input) \/ IsCmpText(input[e + 1])

Positions(s) == {s[k].pos : k \in DOMAIN s}

(***************************************************************************)
(* C4: a well-formed input is never diagnosed, every step of its           *)
(* translation is a grouping or building step, and the expression it ends  *)
(* in has exactly n comparisons, comparison i using operator i of the      *)
(* input on term i (term 0 itself, later the binding b of the block        *)
(* before) and term i + 1.                                                 *)
(***************************************************************************)
C4_WellFormedAccepted ==
    WellFormed =>
        /\ diag = NoDiag
        /\ pc \in {"expand", "expanded"}
        /\ pc = "expand" =>
            RuleOf(inv) \in {"entry", "wrap_op", "wrap_append", "wrap_end",
                             "op_rec", "op_base"}
        /\ pc = "expanded" =>
            /\ Len(out) = N
            /\ \A i \in 0..(N - 1) :
                /\ out[i + 1].op = Lit(InputOps[i + 1])
                /\ out[i + 1].a =
                    (IF i = 0 THEN Group("(", TermTokens(0)) ELSE Lit("b"))
                /\ out[i + 1].b = Group("(", TermTokens(i + 1))
                /\ out[i + 1].rule = (IF i = N - 1 THEN "base" ELSE "rec")

\* a chain of two different operators has been translated
C4_Witness ==
    /\ WellFormed /\ pc = "expanded"
    /\ N = 2 /\ InputOps[1] # InputOps[2] /\ Len(out) = 2

(***************************************************************************)
(* C5: every closed term and the accumulator are runs of consecutive input *)
(* tokens in their order; a closed term ends right before a comparison     *)
(* operator or at the end of the input, the accumulator right before the   *)
(* unread input; and in the chain handed to @op every non-comparison token *)
(* lies in a term that also holds its non-comparison neighbour.            *)
(***************************************************************************)
C5_TermsAreWholeRuns ==
    /\ \A g \in Terms : Contiguous(g.s) /\ EndsAtOperator(g.s)
    /\ IsWrap(inv) =>
        /\ Contiguous(Accumulator)
        /\ LET e == Accumulator[Len(Accumulator)].pos IN
            Tail2(inv, 5) = [k \in 1..(Len(input) - e) |->
                                Tok(input[e + k], e + k)]
    /\ HandedOver =>
        \A p \in 1..Len(input) : ~IsCmpText(input[p]) =>
            \E g \in Terms :
                /\ p \in Positions(g.s)
                /\ (p < Len(input) /\ ~IsCmpText(input[p + 1]))
                    => p + 1 \in Positions(g.s)

\* a chain is handed over with the term x + x kept whole
C5_Witness ==
    /\ HandedOver /\ N >= 1
    /\ \E g \in Terms :
        Len(g.s) = 3 /\ g.s[1].t = "x" /\ g.s[2].t = "+" /\ g.s[3].t = "x"

(***************************************************************************)
(* C6: an input that starts with a comparison operator only ever takes the *)
(* leading-operator and @arg_err arms, ends in the two-arguments           *)
(* diagnostic naming that operator, and emits nothing.                     *)
(***************************************************************************)
C6_LeadingOperatorRejected ==
    IsCmpText(input[1]) =>
        /\ out = <<>> /\ pc \in {"expand", "error"}
        /\ pc = "expand" => RuleOf(inv) \in {"leading_op", "arg_err"}
        /\ pc = "error" => diag = [msg |-> ArgErrMsg, op |-> input[1]]

\* the diagnostic names the leading operator, not a different later one
C6_Witness ==
    /\ pc = "error" /\ Len(input) >= 3
    /\ IsCmpText(input[1]) /\ IsCmpText(input[3]) /\ input[3] # input[1]
    /\ diag.op = input[1]

(***************************************************************************)
(* C7 (as claimed): an input whose last token is a comparison operator     *)
(* never yields an expression and is diagnosed with the two-arguments      *)
(* diagnostic, which names the trailing operator unless the input also     *)
(* starts with an operator (that one is reported first).                   *)
(***************************************************************************)
C7_TrailingOperatorRejected ==
    IsCmpText(Last) =>
        /\ pc # "expanded"
        /\ pc = "error" =>
            /\ diag.msg = ArgErrMsg
            /\ ~IsCmpText(input[1]) => diag.op = Last

(***************************************************************************)
(* C8 (as claimed): an input with two adjacent comparison operators never  *)
(* yields an expression and is diagnosed with the two-arguments            *)
(* diagnostic.                                                             *)
(***************************************************************************)
C8_AdjacentOperatorsRejected ==
    AdjacentOps =>
        /\ pc # "expanded"
        /\ pc = "error" => diag.msg = ArgErrMsg

(***************************************************************************)
(* C9: an input without comparison operator only ever takes the            *)
(* entrypoint, append, end and @op catch-all arms, ends in the             *)
(* expected-comparison-operator diagnostic, and emits nothing.             *)
(***************************************************************************)
C9_BareTermRejected ==
    N = 0 =>
        /\ out = <<>> /\ pc \in {"expand", "error"}
        /\ pc = "expand" =>
            RuleOf(inv) \in {"entry", "wrap_append", "wrap_end", "op_err"}
        /\ pc = "error" => diag = OpErrDiag

\* a bare term of several tokens has been rejected
C9_Witness ==
    /\ N = 0 /\ Len(input) >= 2 /\ pc = "error" /\ diag = OpErrDiag

(***************************************************************************)
(* C10 (as claimed): neither the accumulator nor any closed term ever      *)
(* holds a comparison operator.                                            *)
(***************************************************************************)
C10_NoOperatorInTerm ==
    /\ \A k \in DOMAIN Accumulator : ~IsCmp(Accumulator[k])
    /\ \A g \in Terms : \A k \in DOMAIN g.s : ~IsCmp(g.s[k])

(***************************************************************************)
(* C11: the left operand of every comparison after the first is the value  *)
(* the comparison before it used as its right operand, which is the value  *)
(* the one evaluation of that term yielded, also for terms that would      *)
(* yield something else if evaluated again; the result is the conjunction  *)
(* of the comparisons on those recorded values.                            *)
(***************************************************************************)
C11_ReusesRecordedValue ==
    /\ \A k \in DOMAIN cmps :
        /\ cmps[k].l = vals[k]
        /\ cmps[k].r = vals[k + 1]
        /\ k >= 2 => cmps[k].l = cmps[k - 1].r
    /\ pc = "done" =>
        (result <=>
            /\ Len(vals) = N + 1
            /\ \A k \in 1..N : Holds(vals[k], InputOps[k], vals[k + 1]))

\* two comparisons were made on stateful terms: a second evaluation of t1
\* would have yielded another value than the one both comparisons used
C11_Witness ==
    /\ pc = "done" /\ stateful /\ N = 2 /\ Len(cmps) = 2
    /\ cmps[2].l = vals[2] /\ TermValue(1) # vals[2]

(***************************************************************************)
(* C12: a chain of one operator expands to the single block t0 op0 t1,     *)
(* with no let binding and no conjunction; its evaluation evaluates t0,    *)
(* then t1, once each, makes one comparison, and yields t0 op0 t1.         *)
(***************************************************************************)
C12_SingleComparison ==
    N = 1 =>
        /\ pc \in {"expanded", "run", "done"} =>
            out = <<[rule |-> "base", a |-> Group("(", TermTokens(0)),
                     op |-> Lit(InputOps[1]), b |-> Group("(", TermTokens(1))]>>
        /\ pc \in {"run", "done"} => log \in {<<>>, <<0>>, <<0, 1>>}
        /\ pc = "done" =>
            /\ log = <<0, 1>> /\ Len(cmps) = 1
            /\ cmps[1] = [l |-> vals[1], op |-> input[OpPos(1)],
                          r |-> vals[2], v |-> result]
            /\ vals = <<tv[0], tv[1]>>
            /\ result <=> Holds(tv[0], input[OpPos(1)], tv[1])

\* x != x + x was evaluated, t0 = 0 and t1 = 1, to true
C12_Witness ==
    /\ N = 1 /\ pc = "done" /\ input = <<"x", "!=", "x", "+", "x">>
    /\ log = <<0, 1>> /\ tv[0] = 0 /\ tv[1] = 1 /\ result

(***************************************************************************)
(* C13: when the Grouper hands its chain to @op, the chain with the        *)
(* parentheses removed is the input: the same token texts in the same      *)
(* order, every token of a term being the caller's token of that place.    *)
(***************************************************************************)
RECURSIVE Flatten(_)
\* the tokens of a sequence of token trees, groups opened
Flatten(q) ==
    IF q = <<>> THEN <<>>
    ELSE (IF q[1].d = "" THEN <<q[1]>> ELSE Flatten(q[1].s)) \o Flatten(Tail(q))

C13_GroupingKeepsTokens ==
    HandedOver =>
        LET f == Flatten(Tail2(inv, 3)) IN
            /\ [k \in 1..Len(f) |-> f[k].t] = input
            /\ \A k \in 1..Len(f) : ~IsCmpText(input[k]) => f[k].pos = k

\* a well-formed chain with terms of several tokens is handed over
C13_Witness ==
    /\ HandedOver /\ WellFormed /\ Len(input) = 5
    /\ \E g \in Terms : Len(g.s) = 2
    /\ Len(Flatten(Tail2(inv, 3))) = 5

(***************************************************************************)
(* C14: whenever @op is invoked, its arguments are an odd number of token  *)
(* trees, terms at the odd places (the binding b at the first place of a   *)
(* recursive call) and comparison operators at the even places, and a      *)
(* recursive call has at least three of them; the expected-comparison-     *)
(* operator diagnostic is raised for exactly the inputs without            *)
(* comparison operator, which never yield an expression.                   *)
(***************************************************************************)
InOp == pc = "expand" /\ IsOp(inv)

Recursive == InOp /\ out # <<>>

C14_ChainFormAndCatchAll ==
    /\ InOp =>
        LET q == Tail2(inv, 3) IN
            /\ Len(q) % 2 = 1
            /\ \A k \in 1..Len(q) :
                IF k % 2 = 0 THEN IsCmp(q[k])
                ELSE IF k = 1 /\ Recursive THEN q[k] = Lit("b")
                ELSE IsTerm(q[k]) /\ q[k].s # <<>>
            /\ Recursive => Len(q) >= 3
    /\ diag = OpErrDiag => N = 0
    /\ N = 0 => pc # "expanded" /\ (pc = "error" => diag = OpErrDiag)

\* the recursive call of a two-operator chain: b op1 (t2)
C14_Witness ==
    /\ Recursive /\ WellFormed /\ N = 2
    /\ Len(inv) = 5 /\ inv[3] = Lit("b") /\ IsCmp(inv[4]) /\ IsTerm(inv[5])

(***************************************************************************)
(* C15: translation always ends, in exactly one of three outcomes.  Every  *)
(* step starts from an unfinished translation and either moves to a later  *)
(* stage (input, @wrap, @op, @arg_err, finished) or shortens the           *)
(* invocation within its stage; an @wrap step leaves a proper suffix of    *)
(* the unread input, an @op step a shorter chain, and no emitted block is  *)
(* ever taken back.  An unfinished translation always has an arm to take;  *)
(* a finished one holds either a diagnostic of the two kinds or a complete *)
(* expression, never both.                                                 *)
(***************************************************************************)
Rank ==
    IF pc # "expand" THEN 0
    ELSE IF MatchArgErr(inv) THEN 1
    ELSE IF IsOp(inv) THEN 2
    ELSE IF IsWrap(inv) THEN 3
    ELSE 4

\* the input the Grouper has not read yet
Remaining == IF IsWrap(inv) THEN Tail2(inv, 5) ELSE <<>>

IsProperSuffix(a, b) ==
    Len(a) < Len(b) /\ a = SubSeq(b, Len(b) - Len(a) + 1, Len(b))

C15_Outcome ==
    /\ pc \in {"expand", "error", "expanded"}
    /\ pc = "expand" => diag = NoDiag /\ RuleOf(inv) # "none"
    /\ pc = "error" =>
        \/ diag = OpErrDiag
        \/ diag.msg = ArgErrMsg /\ diag.op \in CmpOps
    /\ pc = "expanded" =>
        /\ diag = NoDiag /\ out # <<>>
        /\ \A j \in DOMAIN out :
            out[j].rule = (IF j = Len(out) THEN "base" ELSE "rec")

C15_Step ==
    /\ pc = "expand"
    /\ Rank' < Rank \/ (Rank' = Rank /\ Len(inv') < Len(inv))
    /\ (IsWrap(inv) /\ IsWrap(inv')) => IsProperSuffix(Remaining', Remaining)
    /\ (IsOp(inv) /\ IsOp(inv')) => Len(inv') < Len(inv)
    /\ Len(out) <= Len(out') /\ out = SubSeq(out', 1, Len(out))

C15_TerminatesWithOneOutcome == []C15_Outcome /\ [][C15_Step]_vars

\* a trailing operator was diagnosed after the Grouper had read four tokens
C15_Witness ==
    /\ pc = "error" /\ Len(input) = 5 /\ ~IsCmpText(input[1])
    /\ diag = [msg |-> ArgErrMsg, op |-> Last]

====
